---- MODULE Spec2Model ----
(***************************************************************************)
(* A model of PyEMMA's object serialization,                                *)
(* pyemma/_base/serialization/serialization.py: save/load, the             *)
(* producer-chain flag, __getstate__/__setstate__ and the interpolation of  *)
(* old states (_serialize_interpolation_map).                               *)
(*                                                                         *)
(* A Python dict is a function whose DOMAIN is its key set.  None is 0,     *)
(* which is no object and no field value.  An exception is the name of its  *)
(* class, "none" when no exception was raised.                              *)
(***************************************************************************)
EXTENDS Integers, Sequences, FiniteSets, TLC

VARIABLES
    klass,      \* interpolation harness: the class handed to __interpolate
    klass0,     \* the class as the developer declared it
    state,      \* interpolation harness: the state dict (mutated in place)
    state0,     \* the state dict before the first __interpolate
    state1,     \* the state dict after the first __interpolate
    exc,        \* the exception the last __interpolate raised
    exc1,       \* the exception the first __interpolate raised
    ncalls,     \* number of __interpolate calls made on the state dict
    cls,        \* the class of every object
    attrs,      \* the instance attributes of every object, the flag apart
    flag,       \* __save_data_producer of every object (False when never set)
    file,       \* the model slot of the file: the document save() attached
    last        \* the last call of save() or load(), how it ended, what it returned

ivars == <<klass, klass0, state, state0, state1, exc, exc1, ncalls>>

svars == <<cls, attrs, flag, file, last>>

vars == <<klass, klass0, state, state0, state1, exc, exc1, ncalls,
          cls, attrs, flag, file, last>>

(***************************************************************************)
(* Bounds of the model.                                                    *)
(***************************************************************************)
\* class versions and integer map keys range over 0 .. MaxVersion
MaxVersion == 2
\* the action lists of an interpolation map hold at most MaxActions actions together
MaxActions == 2
\* number of objects alive in the process
NObj == 3

(***************************************************************************)
(* Python dicts.                                                           *)
(***************************************************************************)
EmptyDict == [k \in {} |-> 0]

\* d[k] = v
DictSet(d, k, v) == [x \in (DOMAIN d) \cup {k} |-> IF x = k THEN v ELSE d[x]]

\* d.pop(k, None), the popped value dropped
DictDel(d, k) == [x \in (DOMAIN d) \ {k} |-> d[x]]

\* d.update(e)
DictUpdate(d, e) == [x \in (DOMAIN d) \cup (DOMAIN e) |-> IF x \in DOMAIN e THEN e[x] ELSE d[x]]

(***************************************************************************)
(* Keys of an interpolation map.  A key is an int n, a non-integral number *)
(* n + 0.5 ("float") or a string ("str", ordered among strings by n).      *)
(***************************************************************************)
IntKey(n) == [t |-> "int", n |-> n]

\* pyemma.util.types.is_int
is_int(k) == k.t = "int"

\* Python 3 orders numbers with numbers and strings with strings; '<' between a
\* string and a number raises TypeError.
Orderable(k1, k2) == (k1.t = "str") = (k2.t = "str")

\* twice the numeric value of a numeric key
Twice(k) == IF k.t = "float" THEN 2 * k.n + 1 ELSE 2 * k.n

KeyLess(k1, k2) == IF k1.t = "str" THEN k1.n < k2.n ELSE Twice(k1) < Twice(k2)

(***************************************************************************)
(* sorted(items): a declared map is the sequence of its (key, value) items *)
(* in declaration order; keys are distinct.                                *)
(***************************************************************************)
RECURSIVE InsertItem(_, _)
InsertItem(sorted, item) ==
    IF sorted = <<>> THEN <<item>>
    ELSE IF KeyLess(item.key, Head(sorted).key) THEN <<item>> \o sorted
    ELSE <<Head(sorted)>> \o InsertItem(Tail(sorted), item)

\* mutant: the items left in declaration order
UnsortedItems(items) == items

RECURSIVE SortedItems(_)
SortedItems(items) ==
    IF items = <<>> THEN <<>>
    ELSE InsertItem(SortedItems(SubSeq(items, 1, Len(items) - 1)), items[Len(items)])

\* sorted() compares keys of different kinds as soon as the map holds two of them
SortRaises(items) ==
    \E i, j \in 1..Len(items) : ~Orderable(items[i].key, items[j].key)

(***************************************************************************)
(* SerializableMixIn._validate_interpolation_map                           *)
(***************************************************************************)
valid_ops == {"set", "rm", "mv", "map"}

\* the first exception the validation loop raises on the sorted map, "none" if none
RECURSIVE ValidateItems(_)
ValidateItems(items) ==
    IF items = <<>> THEN "none"
    ELSE LET k == Head(items).key
             v == Head(items).val
         IN  IF ~is_int(k) THEN "DeveloperError"
             ELSE IF ~v.islist THEN "DeveloperError"
             ELSE IF \E i \in 1..Len(v.actions) : v.actions[i][1] \notin valid_ops
                  THEN "DeveloperError"
             ELSE ValidateItems(Tail(items))

\* [exc, map]: the exception raised and the map left on the class
ValidateInterpolationMap(k) ==
    IF SortRaises(k.map) THEN [exc |-> "TypeError", map |-> k.map]
    ELSE LET inter_map == SortedItems(k.map)
             e == ValidateItems(inter_map)
         IN  IF e # "none" THEN [exc |-> e, map |-> k.map]
             ELSE [exc |-> "none", map |-> inter_map]

(***************************************************************************)
(* SerializableMixIn._get_version_for_class_from_state                     *)
(* A version is [inf |-> FALSE, n |-> v] or float('inf'), [inf |-> TRUE].   *)
(***************************************************************************)
Infinity == [inf |-> TRUE, n |-> 0]

Finite(v) == [inf |-> FALSE, n |-> v]

\* v > n for a version v and an int n
VersionGreater(v, n) == v.inf \/ v.n > n

\* state['class_tree_versions'][n] raises KeyError
LookupFails(st, n) ==
    \/ "class_tree_versions" \notin DOMAIN st
    \/ n \notin DOMAIN st["class_tree_versions"]

\* mutant: a class missing from the manifest taken as older than every version
NotFoundIsOldest == Finite(-1)

\* the version returned when no name is found
NotFoundVersion == Infinity

\* a lookup under the current name of the class only
OwnNameVersion(st, names) ==
    IF names = <<>> \/ LookupFails(st, Head(names)) THEN NotFoundVersion
    ELSE Finite(st["class_tree_versions"][Head(names)])

RECURSIVE FirstVersion(_, _)
FirstVersion(st, names) ==
    IF names = <<>> THEN NotFoundVersion
    ELSE IF LookupFails(st, Head(names)) THEN FirstVersion(st, Tail(names))
    ELSE Finite(st["class_tree_versions"][Head(names)])

\* k.names is [_importable_name(klass)] + class_rename_registry.old_handled_by(klass)
GetVersionForClassFromState(st, k) == FirstVersion(st, k.names)

(***************************************************************************)
(* SerializableMixIn.__interpolate                                         *)
(***************************************************************************)
\* the function a 'map' action carries
ApplyFunc(func, x) == IF func = "succ" THEN x + 1 ELSE x

\* mutant: state.pop(value) without a default
RmStrict(st, value) ==
    IF value \in DOMAIN st THEN [state |-> DictDel(st, value), exc |-> "none"]
    ELSE [state |-> st, exc |-> "KeyError"]

\* state.pop(value, None)
Rm(st, value) == [state |-> DictDel(st, value), exc |-> "none"]

\* one action on the state dict: [state, exc]
ApplyAction(st, a) ==
    IF Len(a) = 3 THEN
        LET operation == a[1]
            name == a[2]
            value == a[3]
        IN  IF operation = "set" THEN [state |-> DictSet(st, name, value), exc |-> "none"]
            ELSE IF operation = "mv" THEN
                IF name \in DOMAIN st
                THEN [state |-> DictSet(DictDel(st, name), value, st[name]), exc |-> "none"]
                ELSE [state |-> st, exc |-> "DeveloperError"]
            ELSE IF operation = "map" THEN
                IF name \in DOMAIN st
                THEN [state |-> DictSet(st, name, ApplyFunc(value, st[name])), exc |-> "none"]
                ELSE [state |-> st, exc |-> "KeyError"]
            ELSE [state |-> st, exc |-> "none"]
    ELSE IF Len(a) = 2 THEN
        IF a[1] = "rm" THEN Rm(st, a[2])
        ELSE [state |-> st, exc |-> "none"]
    ELSE [state |-> st, exc |-> "none"]

\* for a in actions: an exception ends the loop
RECURSIVE ApplyActions(_, _)
ApplyActions(st, actions) ==
    IF actions = <<>> THEN [state |-> st, exc |-> "none"]
    ELSE LET r == ApplyAction(st, Head(actions))
         IN  IF r.exc # "none" THEN r ELSE ApplyActions(r.state, Tail(actions))

\* the version test of the loop over the keys
KeySkipped(version, key, klass_version) == ~(version > key /\ key >= klass_version)

\* for key in klass._serialize_interpolation_map.keys()
RECURSIVE ApplyKeys(_, _, _, _)
ApplyKeys(st, items, version, klass_version) ==
    IF items = <<>> THEN [state |-> st, exc |-> "none"]
    ELSE IF KeySkipped(version, Head(items).key.n, klass_version)
         THEN ApplyKeys(st, Tail(items), version, klass_version)
    ELSE LET r == ApplyActions(st, Head(items).val.actions)
         IN  IF r.exc # "none" THEN r
             ELSE ApplyKeys(r.state, Tail(items), version, klass_version)

\* __interpolate(self, state, klass): [state, exc, map], map being
\* klass._serialize_interpolation_map as the call leaves it
Interpolate(st, k) ==
    IF ~k.hasmap THEN [state |-> st, exc |-> "none", map |-> k.map]
    ELSE LET klass_version == GetVersionForClassFromState(st, k)
         IN  IF VersionGreater(klass_version, k.version)
             THEN [state |-> st, exc |-> "none", map |-> k.map]
             ELSE LET v == ValidateInterpolationMap(k)
                  IN  IF v.exc # "none" THEN [state |-> st, exc |-> v.exc, map |-> v.map]
                      ELSE LET r == ApplyKeys(st, v.map, k.version, klass_version.n)
                           IN  [state |-> r.state, exc |-> r.exc, map |-> v.map]

(***************************************************************************)
(* Inputs of the interpolation: the classes a developer may declare and the *)
(* state dicts a file may hold.                                            *)
(***************************************************************************)
\* the actions a developer writes into an action list; "add" is no valid verb
ActionUniverse ==
    { <<"set", "a", 5>>, <<"mv", "a", "b">>, <<"rm", "a">>, <<"map", "a", "succ">>,
      <<"add", "a", 5>> }

ActionLists == UNION { [1..n -> ActionUniverse] : n \in 0..MaxActions }

\* the number of versions a map declares actions for
MapSizes == {0, 1, 2}

RECURSIVE CountActions(_)
CountActions(m) ==
    IF m = <<>> THEN 0 ELSE Len(Head(m).val.actions) + CountActions(Tail(m))

\* a value of the map: a list/tuple of actions, or something else
MapValues == { [islist |-> TRUE, actions |-> l] : l \in ActionLists }
             \cup { [islist |-> FALSE, actions |-> <<>>] }

\* int keys, the non-integral number 0.5 and a string
MapKeys == { IntKey(n) : n \in 0..(MaxVersion - 1) }
           \cup { [t |-> "float", n |-> 0], [t |-> "str", n |-> 0] }

\* a dict literal: distinct keys, in the order the developer declared them
DeclaredMaps ==
    { m \in UNION { [1..n -> [key : MapKeys, val : MapValues]] : n \in MapSizes } :
        /\ \A i, j \in 1..Len(m) : i # j => m[i].key # m[j].key
        /\ CountActions(m) <= MaxActions }

\* the class handed to __interpolate; it was once named OldC
ClassNames == <<"C", "OldC">>

InterpolatedClasses ==
    { [hasmap |-> TRUE, map |-> m, version |-> v, names |-> ClassNames] :
        m \in DeclaredMaps, v \in 1..MaxVersion }
    \cup { [hasmap |-> FALSE, map |-> <<>>, version |-> v, names |-> ClassNames] :
        v \in 1..MaxVersion }

\* class_tree_versions of a file: the class under its name, under its old name,
\* or another class only
Manifests ==
    { [n \in {c} |-> v] : c \in {"C", "OldC"}, v \in 0..MaxVersion }
    \cup { [n \in {"Other"} |-> 0] }

FieldDicts ==
    { [n \in s |-> IF n = "a" THEN 1 ELSE 2] : s \in SUBSET {"a", "b"} }

FileStates ==
    { DictSet(d, "class_tree_versions", m) : d \in FieldDicts, m \in Manifests }
    \cup FieldDicts

(***************************************************************************)
(* The interpolation on its own: __interpolate called on a state dict, and  *)
(* called again on the state it left.                                       *)
(***************************************************************************)
InterpInit ==
    /\ klass \in InterpolatedClasses
    /\ klass0 = klass
    /\ state \in FileStates
    /\ state0 = state
    /\ state1 = state
    /\ exc = "none"
    /\ exc1 = "none"
    /\ ncalls = 0
    /\ cls = <<>>
    /\ attrs = <<>>
    /\ flag = <<>>
    /\ file = [present |-> FALSE]
    /\ last = [op |-> "none"]

CallInterpolate ==
    /\ ncalls = 0
    /\ LET r == Interpolate(state, klass)
       IN  /\ state' = r.state
           /\ state1' = r.state
           /\ exc' = r.exc
           /\ exc1' = r.exc
           /\ klass' = [klass EXCEPT !.map = r.map]
    /\ ncalls' = 1
    /\ UNCHANGED <<klass0, state0>>
    /\ UNCHANGED svars

CallInterpolateAgain ==
    /\ ncalls = 1
    /\ LET r == Interpolate(state, klass)
       IN  /\ state' = r.state
           /\ exc' = r.exc
           /\ klass' = [klass EXCEPT !.map = r.map]
    /\ ncalls' = 2
    /\ UNCHANGED <<klass0, state0, state1, exc1>>
    /\ UNCHANGED svars

InterpNext == CallInterpolate \/ CallInterpolateAgain

SpecInterp == InterpInit /\ [][InterpNext]_vars

(***************************************************************************)
(* The classes of the process: SerializableMixIn, the estimator base class  *)
(* of pyemma._ext.sklearn.base, and classes a developer derived.  Mro is    *)
(* cls.mro(); Decl holds what the class body itself declares.               *)
(***************************************************************************)
None == 0

\* Stage stored its field under the name 'a' in version 0; SubStage derives from
\* Stage and declares nothing of its own
StageMap ==
    << [key |-> IntKey(0), val |-> [islist |-> TRUE, actions |-> << <<"mv", "a", "b">> >>]] >>

Mro ==
    [ object            |-> <<"object">>,
      SerializableMixIn |-> <<"SerializableMixIn", "object">>,
      BaseEstimator     |-> <<"BaseEstimator", "object">>,
      Stage             |-> <<"Stage", "SerializableMixIn", "object">>,
      SubStage          |-> <<"SubStage", "Stage", "SerializableMixIn", "object">>,
      Raw               |-> <<"Raw", "object">>,
      Model             |-> <<"Model", "SerializableMixIn", "object">>,
      Est               |-> <<"Est", "BaseEstimator", "SerializableMixIn", "object">> ]

Decl ==
    [ object            |-> EmptyDict,
      SerializableMixIn |-> ("_serialize_fields" :> <<>>),
      BaseEstimator     |-> ("_get_param_names" :> <<>> @@ "get_params" :> TRUE
                             @@ "set_params" :> TRUE),
      Stage             |-> ("_serialize_version" :> 1 @@ "_serialize_fields" :> <<"b">>
                             @@ "_serialize_interpolation_map" :> StageMap
                             @@ "data_producer" :> None),
      SubStage          |-> EmptyDict,
      Raw               |-> ("data_producer" :> None),
      Model             |-> ("_serialize_version" :> 0 @@ "_serialize_fields" :> <<"x", "y">>
                             @@ "get_model_params" :> TRUE @@ "set_model_params" :> TRUE
                             @@ "_get_model_param_names" :> <<"P">>),
      Est               |-> ("_serialize_version" :> 0 @@ "_serialize_fields" :> <<"x">>
                             @@ "_get_param_names" :> <<"lag">>) ]

\* class_rename_registry: old importable name -> class
OldToNew == [ OldStage |-> "Stage" ]

\* class_rename_registry.old_handled_by(klass)
RECURSIVE OldNamesIn(_, _)
OldNamesIn(olds, c) ==
    IF olds = {} THEN <<>>
    ELSE LET n == CHOOSE x \in olds : TRUE
         IN  (IF OldToNew[n] = c THEN <<n>> ELSE <<>>) \o OldNamesIn(olds \ {n}, c)

old_handled_by(c) == OldNamesIn(DOMAIN OldToNew, c)

\* hasattr(c, a) for a class c
ClassHasAttr(c, a) == \E i \in 1..Len(Mro[c]) : a \in DOMAIN Decl[Mro[c][i]]

\* getattr(c, a) for a class c: the first class of the mro that declares a
ClassGetAttr(c, a) ==
    LET i == CHOOSE i \in 1..Len(Mro[c]) :
                 /\ a \in DOMAIN Decl[Mro[c][i]]
                 /\ \A j \in 1..(i - 1) : a \notin DOMAIN Decl[Mro[c][j]]
    IN  Decl[Mro[c][i]][a]

\* issubclass(c, base)
issubclass(c, base) == \E i \in 1..Len(Mro[c]) : Mro[c][i] = base

(***************************************************************************)
(* The objects of the process.                                             *)
(***************************************************************************)
Objs == 1..NObj

\* the classes objects are made of
InstanceClasses == {"Stage", "SubStage", "Raw", "Model", "Est"}

\* hasattr(self, a)
HasAttr(o, a) == a \in DOMAIN attrs[o] \/ ClassHasAttr(cls[o], a)

\* getattr(self, a)
GetAttr(o, a) == IF a \in DOMAIN attrs[o] THEN attrs[o][a] ELSE ClassGetAttr(cls[o], a)

\* the instance attributes an object of class c may have been given: a pipeline
\* element reads from nothing, from itself (a reader) or from an older object
InstanceAttrs(o, c) ==
    IF c \in {"Stage", "SubStage"} THEN
        { ("b" :> 10 + o) } \cup
        { ("b" :> 10 + o @@ "data_producer" :> p) : p \in 1..(o - 1) } \cup
        { ("b" :> 10 + o @@ "data_producer" :> o @@ "_is_reader" :> TRUE) }
    ELSE IF c = "Raw" THEN
        { EmptyDict } \cup { ("data_producer" :> p) : p \in 1..o }
    ELSE IF c = "Model" THEN
        { ("x" :> 20 + o @@ "P" :> 40 + o), ("x" :> 20 + o @@ "y" :> 30 + o @@ "P" :> 40 + o) }
    ELSE { ("x" :> 20 + o @@ "lag" :> 50 + o @@ "_estimated" :> TRUE) }

\* the objects object number o may be
Instances(o) ==
    UNION { { [cls |-> c, attrs |-> a] : a \in InstanceAttrs(o, c) } : c \in InstanceClasses }

Worlds ==
    { w \in [Objs -> UNION { Instances(o) : o \in Objs }] : \A o \in Objs : w[o] \in Instances(o) }

\* isinstance(o, SerializableMixIn)
Serializable(o) == issubclass(cls[o], "SerializableMixIn")

(***************************************************************************)
(* SerializableMixIn._save_data_producer (setter): [flag, exc]              *)
(***************************************************************************)
\* the forwarding test of the setter
Forwards(o, value) ==
    /\ value
    /\ HasAttr(o, "data_producer")
    /\ GetAttr(o, "data_producer") # None
    /\ GetAttr(o, "data_producer") # o

\* the exception raised for a producer whose class has no _serialize_version
NotSerializableError == "RuntimeError"

RECURSIVE SetSaveDataProducer(_, _, _)
SetSaveDataProducer(fl, o, value) ==
    LET fl1 == [fl EXCEPT ![o] = value]
        p == GetAttr(o, "data_producer")
    IN  IF Forwards(o, value)
        THEN IF ~ClassHasAttr(cls[p], "_serialize_version")
             THEN [flag |-> fl1, exc |-> NotSerializableError]
             ELSE SetSaveDataProducer(fl1, p, value)
        ELSE [flag |-> fl1, exc |-> "none"]

(***************************************************************************)
(* SerializableMixIn._get_classes_to_inspect                               *)
(***************************************************************************)
HasCustomFields(c) ==
    ClassHasAttr(c, "_serialize_fields") /\ ClassGetAttr(c, "_serialize_fields") # <<>>

IsEstimatorClass(c) ==
    ClassHasAttr(c, "_get_param_names") /\ ClassHasAttr(c, "_serialize_version")

GetClassesToInspect(c) ==
    SelectSeq(Mro[c], HasCustomFields) \o SelectSeq(Mro[c], IsEstimatorClass)

(***************************************************************************)
(* SerializableMixIn._get_state_of_serializeable_fields                    *)
(***************************************************************************)
SeqToSet(q) == { q[i] : i \in 1..Len(q) }

GetStateOfSerializeableFields(o, k) ==
    LET fields == { f \in SeqToSet(ClassGetAttr(k, "_serialize_fields")) : HasAttr(o, f) }
    IN  [f \in fields |-> GetAttr(o, f)]

(***************************************************************************)
(* SerializableMixIn.__getstate__: [ok, state]; ok is FALSE when the        *)
(* except clause logged an exception and None is returned.                  *)
(***************************************************************************)
pyemma_version == "2.x"

\* a manifest of the classes _get_classes_to_inspect returns only
InspectedVersions(c) ==
    [n \in SeqToSet(GetClassesToInspect(c)) |->
        IF ClassHasAttr(n, "_serialize_version") THEN ClassGetAttr(n, "_serialize_version")
        ELSE -1]

\* res['class_tree_versions']
ClassTreeVersions(c) ==
    [n \in SeqToSet(Mro[c]) |->
        IF ClassHasAttr(n, "_serialize_version") THEN ClassGetAttr(n, "_serialize_version")
        ELSE -1]

\* the estimation parameters of klass: getattr(self, k, None) for each name
GetParams(o, k) ==
    [n \in SeqToSet(ClassGetAttr(k, "_get_param_names")) |->
        IF HasAttr(o, n) THEN GetAttr(o, n) ELSE None]

\* the loop over classes_to_inspect
RECURSIVE CollectFields(_, _, _)
CollectFields(res, o, classes) ==
    IF classes = <<>> THEN res
    ELSE LET k == Head(classes)
             inc == GetStateOfSerializeableFields(o, k)
             inc2 == IF issubclass(k, "BaseEstimator") THEN DictUpdate(inc, GetParams(o, k))
                     ELSE inc
         IN  CollectFields(DictUpdate(res, inc2), o, Tail(classes))

\* self.get_model_params(deep=False)
GetModelParams(o) ==
    [n \in SeqToSet(ClassGetAttr(cls[o], "_get_model_param_names")) |->
        IF HasAttr(o, n) THEN GetAttr(o, n) ELSE None]

\* an exception is raised inside the try block
GetStateRaises(o, fl) ==
    \/ ~HasAttr(o, "_serialize_version")
    \/ fl[o] /\ ~HasAttr(o, "data_producer")
    \/ HasAttr(o, "get_params") /\ ~HasAttr(o, "_estimated")

GetState(o, fl) ==
    IF GetStateRaises(o, fl) THEN [ok |-> FALSE, state |-> EmptyDict]
    ELSE LET r1 == ("class_tree_versions" :> ClassTreeVersions(cls[o]))
             r2 == IF fl[o] THEN DictSet(r1, "data_producer", GetAttr(o, "data_producer"))
                   ELSE r1
             r3 == IF HasAttr(o, "_is_reader")
                   THEN DictSet(r2, "_is_reader", GetAttr(o, "_is_reader")) ELSE r2
             r4 == CollectFields(r3, o, GetClassesToInspect(cls[o]))
             r5 == IF HasAttr(o, "get_params")
                   THEN LET e == DictSet(r4, "_estimated", GetAttr(o, "_estimated"))
                        IN  IF HasAttr(o, "_model") THEN DictSet(e, "model", GetAttr(o, "_model"))
                            ELSE e
                   ELSE r4
             r6 == IF HasAttr(o, "get_model_params") THEN DictUpdate(r5, GetModelParams(o))
                   ELSE r5
         IN  [ok |-> TRUE, state |-> DictSet(r6, "_pyemma_version", pyemma_version)]

(***************************************************************************)
(* jsonpickle.pickler.encode: the document of an object.  A nested producer *)
(* is encoded through its own __getstate__, a reference to the object       *)
(* itself as a back reference.                                              *)
(***************************************************************************)
NoneDoc == [kind |-> "none"]

SelfRef == [kind |-> "self"]

RECURSIVE Encode(_, _)
Encode(o, fl) ==
    IF ~Serializable(o) THEN [kind |-> "obj", cls |-> cls[o], hasstate |-> FALSE, state |-> EmptyDict]
    ELSE LET st == GetState(o, fl)
         IN  IF ~st.ok
             THEN [kind |-> "obj", cls |-> cls[o], hasstate |-> FALSE, state |-> EmptyDict]
             ELSE [kind |-> "obj", cls |-> cls[o], hasstate |-> TRUE, state |->
                    IF "data_producer" \in DOMAIN st.state
                    THEN LET p == st.state["data_producer"]
                         IN  DictSet(st.state, "data_producer",
                                     IF p = None THEN NoneDoc
                                     ELSE IF p = o THEN SelfRef
                                     ELSE Encode(p, fl))
                    ELSE st.state]

(***************************************************************************)
(* SerializableMixIn._set_state_from_serializeable_fields_and_state        *)
(* A step of __setstate__ works on s = [attrs, state, exc, interpolated]:    *)
(* the attributes set on self so far, the state dict, the exception raised   *)
(* and the classes klass.__interpolate was called for, in order.  The       *)
(* value a statement leaves behind is bound once, as the only element of a  *)
(* singleton set, and the following statements read it from there.          *)
(***************************************************************************)
\* the class as __interpolate reads it
KlassOf(k) ==
    [ hasmap  |-> ClassHasAttr(k, "_serialize_interpolation_map"),
      map     |-> IF ClassHasAttr(k, "_serialize_interpolation_map")
                  THEN ClassGetAttr(k, "_serialize_interpolation_map") ELSE <<>>,
      version |-> IF ClassHasAttr(k, "_serialize_version")
                  THEN ClassGetAttr(k, "_serialize_version") ELSE -1,
      names   |-> <<k>> \o old_handled_by(k) ]

\* for n in names: if n in state: setattr(self, n, state.pop(n))
PopInto(s, names) ==
    LET found == SeqToSet(names) \cap DOMAIN s.state
    IN  [ s EXCEPT !.attrs = DictUpdate(s.attrs, [n \in found |-> s.state[n]]),
                   !.state = [n \in (DOMAIN s.state) \ found |-> s.state[n]] ]

SetStateFromSerializeableFieldsAndState(s, k) ==
    CHOOSE res \in
        { IF r.exc # "none"
          THEN [s EXCEPT !.state = r.state, !.exc = r.exc,
                         !.interpolated = Append(s.interpolated, k)]
          ELSE CHOOSE s3 \in
                 { PopInto(s2, ClassGetAttr(k, "_serialize_fields")) :
                   s2 \in { IF ClassHasAttr(k, "_get_param_names")
                            THEN PopInto([s EXCEPT !.state = r.state,
                                                   !.interpolated = Append(s.interpolated, k)],
                                         ClassGetAttr(k, "_get_param_names"))
                            ELSE [s EXCEPT !.state = r.state,
                                           !.interpolated = Append(s.interpolated, k)] } } :
                 TRUE
          : r \in {Interpolate(s.state, KlassOf(k))} } : TRUE

(***************************************************************************)
(* SerializableMixIn.__setstate__                                          *)
(***************************************************************************)
\* self._estimated = state.pop('_estimated'); self._model = state.pop('model', None)
RestoreEstimator(s, c) ==
    IF ~(ClassHasAttr(c, "set_params") /\ ClassHasAttr(c, "_get_param_names")) THEN s
    ELSE IF "_estimated" \notin DOMAIN s.state THEN [s EXCEPT !.exc = "KeyError"]
    ELSE LET a1 == DictSet(s.attrs, "_estimated", s.state["_estimated"])
             a2 == DictSet(a1, "_model",
                           IF "model" \in DOMAIN s.state THEN s.state["model"] ELSE None)
         IN  [s EXCEPT !.attrs = a2,
                       !.state = DictDel(DictDel(s.state, "_estimated"), "model")]

\* for klass in classes_to_inspect
RECURSIVE RestoreClasses(_, _)
RestoreClasses(s, classes) ==
    IF classes = <<>> \/ s.exc # "none" THEN s
    ELSE CHOOSE r \in { RestoreClasses(t, Tail(classes)) :
                          t \in {SetStateFromSerializeableFieldsAndState(s, Head(classes))} } :
             TRUE

\* self.set_model_params(**new_state) for the names of the current model
RestoreModelParams(s, c) ==
    IF s.exc # "none" THEN s
    ELSE IF ClassHasAttr(c, "set_model_params") /\ ClassHasAttr(c, "_get_model_param_names")
    THEN PopInto(s, ClassGetAttr(c, "_get_model_param_names"))
    ELSE s

\* self.data_producer = state['data_producer']
RestoreProducer(s, c) ==
    IF s.exc # "none" THEN s
    ELSE IF ClassHasAttr(c, "data_producer") /\ "data_producer" \in DOMAIN s.state
    THEN [s EXCEPT !.attrs = DictSet(s.attrs, "data_producer", s.state["data_producer"])]
    ELSE s

\* the reader flag, the software version, the manifest, and the final assert
RestoreRest(s) ==
    IF s.exc # "none" THEN s
    ELSE LET s1 == PopInto(s, <<"_is_reader">>)
             a2 == DictSet(s1.attrs, "_pyemma_version",
                           IF "_pyemma_version" \in DOMAIN s1.state
                           THEN s1.state["_pyemma_version"] ELSE "!!!! UNKNOWN !!!!")
             st2 == DictDel(s1.state, "_pyemma_version")
         IN  IF "class_tree_versions" \notin DOMAIN st2
             THEN [s EXCEPT !.attrs = a2, !.state = st2, !.exc = "KeyError"]
             ELSE LET st3 == DictDel(st2, "class_tree_versions")
                  IN  [s EXCEPT !.attrs = a2, !.state = st3,
                         !.exc = IF st3 # EmptyDict THEN "AssertionError" ELSE "none"]

\* what leaves __setstate__ when its try block raised e: both except clauses log
\* and return
SetStatePropagates(e) == "none"

\* the statements of the try block, in order
SetStateSteps == <<"estimator", "classes", "model_params", "data_producer", "rest">>

SetStateStep(s, c, step) ==
    IF s.exc # "none" THEN s
    ELSE CASE step = "estimator"     -> RestoreEstimator(s, c)
           [] step = "classes"       -> RestoreClasses(s, GetClassesToInspect(c))
           [] step = "model_params"  -> RestoreModelParams(s, c)
           [] step = "data_producer" -> RestoreProducer(s, c)
           [] step = "rest"          -> RestoreRest(s)

RECURSIVE SetStateTry(_, _, _)
SetStateTry(s, c, steps) ==
    IF steps = <<>> THEN s
    ELSE CHOOSE r \in { SetStateTry(t, c, Tail(steps)) :
                          t \in {SetStateStep(s, c, Head(steps))} } : TRUE

\* the except clauses: [attrs, interpolated, log, leftover, caught, raised]: the
\* attributes set, the classes interpolated, what was logged ("none", "left-overs"
\* with the keys of the state dict, or "exception"), the exception caught and the
\* exception raised to the caller
SetStateExcept(s) ==
    [ attrs    |-> s.attrs,
      interpolated |-> s.interpolated,
      log      |-> IF s.exc = "none" THEN "none"
                   ELSE IF s.exc = "AssertionError" THEN "left-overs" ELSE "exception",
      leftover |-> IF s.exc = "AssertionError" THEN DOMAIN s.state ELSE {},
      caught   |-> s.exc,
      raised   |-> SetStatePropagates(s.exc) ]

\* __setstate__ on a fresh instance of class c; hasstate is FALSE for state None
SetState(c, hasstate, st) ==
    CHOOSE res \in
        { SetStateExcept(s) :
          s \in { SetStateTry(
                     [attrs |-> EmptyDict, state |-> st, interpolated |-> <<>>,
                      exc |-> IF hasstate /\ st # EmptyDict THEN "none"
                              ELSE "AssertionError"],
                     c, SetStateSteps) } } : TRUE

(***************************************************************************)
(* class_rename_registry.upgrade_old_names_in_json: old class names in the  *)
(* document are replaced by the current ones.                               *)
(***************************************************************************)
NewName(n) == IF n \in DOMAIN OldToNew THEN OldToNew[n] ELSE n

UpgradeManifest(m) ==
    [n \in { NewName(x) : x \in DOMAIN m } |->
        m[CHOOSE x \in DOMAIN m : NewName(x) = n]]

RECURSIVE UpgradeOldNamesInJson(_)
UpgradeOldNamesInJson(d) ==
    IF d.kind # "obj" THEN d
    ELSE LET st1 == IF "class_tree_versions" \in DOMAIN d.state
                    THEN DictSet(d.state, "class_tree_versions",
                                 UpgradeManifest(d.state["class_tree_versions"]))
                    ELSE d.state
             st2 == IF "data_producer" \in DOMAIN st1
                    THEN DictSet(st1, "data_producer",
                                 UpgradeOldNamesInJson(st1["data_producer"]))
                    ELSE st1
         IN  [d EXCEPT !.cls = NewName(d.cls), !.state = st2]

(***************************************************************************)
(* jsonpickle.unpickler.decode: a fresh instance per document, nested       *)
(* documents first, then __setstate__ with the restored state.              *)
(***************************************************************************)
RECURSIVE Decode(_)
Decode(d) ==
    IF d.kind # "obj" THEN d
    ELSE LET st == IF "data_producer" \in DOMAIN d.state
                   THEN DictSet(d.state, "data_producer", Decode(d.state["data_producer"]))
                   ELSE d.state
         IN  [kind |-> "obj", cls |-> d.cls] @@
             (IF issubclass(d.cls, "SerializableMixIn")
              THEN SetState(d.cls, d.hasstate, st)
              ELSE [attrs |-> EmptyDict, interpolated |-> <<>>, log |-> "none",
                    leftover |-> {}, caught |-> "none", raised |-> "none"])

(***************************************************************************)
(* save(obj, file_name, model_name, save_streaming_chain) and load().       *)
(***************************************************************************)
NoFile == [present |-> FALSE]

\* save(); io_error: h5py.File raises IOError
Save(o, chain, io_error) ==
    /\ IF ~Serializable(o)
       THEN \* no _save_data_producer on obj
            /\ last' = [op |-> "save", obj |-> o, chain |-> chain, old |-> flag,
                        exc |-> "AttributeError"]
            /\ UNCHANGED <<flag, file>>
       ELSE LET old_flag == flag[o]
                r1 == SetSaveDataProducer(flag, o, chain)
            IN  IF r1.exc # "none"
                THEN /\ flag' = r1.flag
                     /\ last' = [op |-> "save", obj |-> o, chain |-> chain, old |-> flag,
                                 exc |-> r1.exc]
                     /\ UNCHANGED file
                ELSE LET tried == IF io_error THEN "IOError" ELSE "none"
                         r2 == SetSaveDataProducer(r1.flag, o, old_flag)
                     IN  /\ flag' = r2.flag
                         /\ file' = IF io_error THEN file
                                    ELSE [present |-> TRUE, doc |-> Encode(o, r1.flag),
                                          chain |-> chain, src |-> o]
                         /\ last' = [op |-> "save", obj |-> o, chain |-> chain, old |-> flag,
                                     exc |-> IF r2.exc # "none" THEN r2.exc ELSE tried]
    /\ UNCHANGED <<cls, attrs>>
    /\ UNCHANGED ivars

\* load(): the slot decoded; ValueError when the file has no such slot
Load ==
    /\ IF ~file.present
       THEN last' = [op |-> "load", exc |-> "ValueError", obj |-> NoneDoc]
       ELSE \E doc \in {UpgradeOldNamesInJson(file.doc)} :
            \E obj \in {Decode(doc)} :
               last' = [op |-> "load", exc |-> obj.raised, obj |-> obj]
    /\ UNCHANGED <<cls, attrs, flag, file>>
    /\ UNCHANGED ivars

\* a process with its objects, none saved yet
Init ==
    /\ \E w \in Worlds :
          /\ cls = [o \in Objs |-> w[o].cls]
          /\ attrs = [o \in Objs |-> w[o].attrs]
    /\ flag = [o \in Objs |-> FALSE]
    /\ file = NoFile
    /\ last = [op |-> "none"]
    /\ klass = [hasmap |-> FALSE, map |-> <<>>, version |-> 0, names |-> <<>>]
    /\ klass0 = klass
    /\ state = EmptyDict
    /\ state0 = EmptyDict
    /\ state1 = EmptyDict
    /\ exc = "none"
    /\ exc1 = "none"
    /\ ncalls = 0

Next ==
    \/ \E o \in Objs, chain \in BOOLEAN, io_error \in BOOLEAN : Save(o, chain, io_error)
    \/ Load

Spec == Init /\ [][Next]_vars

(***************************************************************************)
(* Files written earlier: by a release whose Stage class still had version  *)
(* 0 or the name OldStage, by a newer release, or with a key no class of    *)
(* this release knows.                                                      *)
(***************************************************************************)
OldManifest(name, v) ==
    (name :> v) @@
    [n \in SeqToSet(Tail(Mro[NewName(name)])) |->
        IF ClassHasAttr(n, "_serialize_version") THEN v ELSE -1]

\* the field of Stage under its old name, its new name, both or neither
OldPayloads ==
    { EmptyDict, ("a" :> 7), ("b" :> 8), ("a" :> 7 @@ "b" :> 8) }

OldExtras == { EmptyDict, ("zzz" :> 9) }

OldDoc(name, v, payload, extra, producer) ==
    [ kind |-> "obj", cls |-> name, hasstate |-> TRUE,
      state |-> ("class_tree_versions" :> OldManifest(name, v)
                 @@ "_pyemma_version" :> pyemma_version)
                @@ payload @@ extra @@ producer ]

\* a document without a chain, with an empty chain, or with one more stage
OldProducers ==
    { EmptyDict, ("data_producer" :> NoneDoc) } \cup
    { ("data_producer" :> OldDoc(n, 1, ("b" :> 6), EmptyDict, EmptyDict)) :
        n \in {"Stage", "OldStage"} }

OldStageDocs ==
    { OldDoc(n, v, pl, ex, pr) :
        n \in {"Stage", "OldStage", "SubStage"}, v \in 0..MaxVersion, pl \in OldPayloads,
        ex \in OldExtras, pr \in OldProducers }

OldModelDocs ==
    { OldDoc("Model", v, pl, ex, EmptyDict) :
        v \in 0..MaxVersion, pl \in { ("x" :> 1 @@ "P" :> 3), ("x" :> 1 @@ "y" :> 2 @@ "P" :> 3) },
        ex \in OldExtras }

OldEstDocs ==
    { OldDoc("Est", v, ("x" :> 1 @@ "lag" :> 5 @@ "_estimated" :> TRUE), ex, EmptyDict) :
        v \in 0..MaxVersion, ex \in OldExtras }

OldFiles ==
    { [present |-> TRUE, doc |-> d, chain |-> "data_producer" \in DOMAIN d.state, src |-> None] :
        d \in OldStageDocs \cup OldModelDocs \cup OldEstDocs }

\* a fresh process in front of a file it did not write
InitOld ==
    /\ cls = [o \in Objs |-> "Model"]
    /\ attrs = [o \in Objs |-> ("x" :> 20 + o @@ "P" :> 40 + o)]
    /\ flag = [o \in Objs |-> FALSE]
    /\ file \in OldFiles
    /\ last = [op |-> "none"]
    /\ klass = [hasmap |-> FALSE, map |-> <<>>, version |-> 0, names |-> <<>>]
    /\ klass0 = klass
    /\ state = EmptyDict
    /\ state0 = EmptyDict
    /\ state1 = EmptyDict
    /\ exc = "none"
    /\ exc1 = "none"
    /\ ncalls = 0

SpecOld == InitOld /\ [][Load]_vars


(***************************************************************************)
(* Properties of the interpolation.                                        *)
(***************************************************************************)
\* the saved version of the harness class in the file's state
SavedVersion == GetVersionForClassFromState(state0, klass0)

\* every key an int, every value a list of actions with a valid verb
WellFormed(m) ==
    \A i \in 1..Len(m) :
        /\ m[i].key.t = "int"
        /\ m[i].val.islist
        /\ \A j \in 1..Len(m[i].val.actions) : m[i].val.actions[j][1] \in valid_ops

\* the verbs of all actions of a map
VerbsOf(m) ==
    UNION { { m[i].val.actions[j][1] : j \in 1..Len(m[i].val.actions) } : i \in 1..Len(m) }

\* the action list declared for version k, empty when none is declared
ActionsForVersion(m, k) ==
    IF \E i \in 1..Len(m) : m[i].key = IntKey(k)
    THEN (CHOOSE e \in { m[i] : i \in 1..Len(m) } : e.key = IntKey(k)).val.actions
    ELSE <<>>

\* what the documentation of SerializableMixIn says an action does;
\* ok is FALSE when the action has nothing to act on
DocumentedAction(r, a) ==
    LET st == r.state
    IN  IF ~r.ok THEN r
        ELSE CASE a[1] = "set" -> [ok |-> TRUE, state |-> [x \in DOMAIN st \cup {a[2]} |->
                                        IF x = a[2] THEN a[3] ELSE st[x]]]
               [] a[1] = "rm"  -> [ok |-> TRUE, state |-> [x \in DOMAIN st \ {a[2]} |-> st[x]]]
               [] a[1] = "mv"  -> IF a[2] \notin DOMAIN st THEN [ok |-> FALSE, state |-> st]
                                  ELSE [ok |-> TRUE, state |->
                                         [x \in (DOMAIN st \ {a[2]}) \cup {a[3]} |->
                                            IF x = a[3] THEN st[a[2]] ELSE st[x]]]
               [] a[1] = "map" -> IF a[2] \notin DOMAIN st THEN [ok |-> FALSE, state |-> st]
                                  ELSE [ok |-> TRUE, state |->
                                         [st EXCEPT ![a[2]] = ApplyFunc(a[3], st[a[2]])]]

RECURSIVE DocumentedActions(_, _)
DocumentedActions(r, actions) ==
    IF actions = <<>> THEN r
    ELSE DocumentedActions(DocumentedAction(r, Head(actions)), Tail(actions))

\* the action lists of versions k, k+1, .. , v1-1 applied one version after the other
RECURSIVE MigrateVersions(_, _, _, _)
MigrateVersions(r, m, k, v1) ==
    IF k >= v1 THEN r
    ELSE MigrateVersions(DocumentedActions(r, ActionsForVersion(m, k)), m, k + 1, v1)

\* C3: for a well-formed map and a saved version v0 <= v1, __interpolate applies
\* exactly the action lists of the keys v0 <= k < v1, in ascending key order whatever
\* the declaration order, each list in its declared order: the state it leaves is the
\* sequential application of those actions, and it raises exactly when one of them
\* has nothing to act on.
C3_AppliesVersionRangeInOrder ==
    (/\ ncalls >= 1
     /\ klass0.hasmap
     /\ WellFormed(klass0.map)
     /\ ~SavedVersion.inf
     /\ SavedVersion.n <= klass0.version)
    => LET ref == MigrateVersions([ok |-> TRUE, state |-> state0], klass0.map,
                                  SavedVersion.n, klass0.version)
       IN  /\ ref.ok => (exc1 = "none" /\ state1 = ref.state)
           /\ ~ref.ok => exc1 # "none"

\* C3 witness: a map declared with version 1 before version 0, both in range;
\* both lists were applied, version 0 first
C3_Witness ==
    /\ ncalls = 1
    /\ klass0.hasmap
    /\ klass0.version = 2
    /\ ~SavedVersion.inf
    /\ SavedVersion.n = 0
    /\ klass0.map = << [key |-> IntKey(1), val |-> [islist |-> TRUE, actions |-> << <<"set", "a", 5>> >>]],
                       [key |-> IntKey(0), val |-> [islist |-> TRUE, actions |-> << <<"mv", "a", "b">> >>]] >>
    /\ "a" \in DOMAIN state0
    /\ exc1 = "none"
    /\ state1["a"] = 5
    /\ state1["b"] = state0["a"]

\* the first call migrated the state: the class has a map, the saved version is
\* not above the current one, and no exception was raised
Migrated ==
    /\ klass0.hasmap
    /\ ~VersionGreater(SavedVersion, klass0.version)
    /\ exc1 = "none"

\* C4 as stated: a second __interpolate on the migrated state is a no-op for maps
\* of rm, set and mv actions: no exception, the state unchanged.
C4_SecondCallNoOpRmSetMv ==
    (ncalls = 2 /\ Migrated /\ VerbsOf(klass0.map) \subseteq {"rm", "set", "mv"})
    => (exc = "none" /\ state = state1)

\* C4 amended: a second __interpolate on the migrated state is a no-op for maps
\* of rm and set actions: no exception, the state unchanged.
C4_SecondCallNoOpRmSet ==
    (ncalls = 2 /\ Migrated /\ VerbsOf(klass0.map) \subseteq {"rm", "set"})
    => (exc = "none" /\ state = state1)

\* C4 witness: rm and set were applied by the first call and the second call was made
C4_Witness ==
    /\ ncalls = 2
    /\ Migrated
    /\ VerbsOf(klass0.map) = {"rm", "set"}
    /\ state1 # state0
    /\ state = state1

\* the manifest has an entry for neither the class's name nor one of its old names
NoManifestEntry ==
    \/ "class_tree_versions" \notin DOMAIN state0
    \/ \A i \in 1..Len(klass0.names) :
          klass0.names[i] \notin DOMAIN state0["class_tree_versions"]

\* C5: with no manifest entry for the class the saved version is float('inf'), and
\* whenever the saved version is above the current version __interpolate leaves the
\* state dict unchanged and raises nothing, whatever the map holds.
C5_NewerOrUnknownVersionIsNoOp ==
    /\ NoManifestEntry => SavedVersion = Infinity
    /\ (ncalls >= 1 /\ (NoManifestEntry \/ VersionGreater(SavedVersion, klass0.version)))
       => (state1 = state0 /\ exc1 = "none" /\ klass = klass0)

\* C5 witness: no manifest entry, and a map whose version 0 would set a field
C5_Witness ==
    /\ ncalls = 1
    /\ NoManifestEntry
    /\ "class_tree_versions" \in DOMAIN state0
    /\ klass0.hasmap
    /\ klass0.map = << [key |-> IntKey(0), val |-> [islist |-> TRUE, actions |-> << <<"set", "a", 5>> >>]] >>
    /\ state1 = state0

\* a non-integer key, a value that is no list, or an invalid verb
Malformed(m) == ~WellFormed(m)

\* C6: when __interpolate reaches the validation, a malformed map makes it raise
\* DeveloperError with the state dict unchanged.
C6_MalformedMapRaisesDeveloperError ==
    (/\ ncalls >= 1
     /\ klass0.hasmap
     /\ ~VersionGreater(SavedVersion, klass0.version)
     /\ Malformed(klass0.map))
    => (exc1 = "DeveloperError" /\ state1 = state0)

(***************************************************************************)
(* Properties of save and load.                                            *)
(***************************************************************************)
\* C1: when a call of save ends, by returning or by raising, the flag
\* _save_data_producer of obj has the value it had before the call.
C1_FlagRestoredAfterSave ==
    (last.op = "save" /\ Serializable(last.obj))
    => flag[last.obj] = last.old[last.obj]

\* the producers above o: its data_producer, that one's data_producer, ...
RECURSIVE ProducersOf(_)
ProducersOf(o) ==
    IF /\ HasAttr(o, "data_producer")
       /\ GetAttr(o, "data_producer") # None
       /\ GetAttr(o, "data_producer") # o
    THEN <<GetAttr(o, "data_producer")>> \o ProducersOf(GetAttr(o, "data_producer"))
    ELSE <<>>

UnversionedInChain(o) ==
    \E i \in 1..Len(ProducersOf(o)) :
        ~ClassHasAttr(cls[ProducersOf(o)[i]], "_serialize_version")

\* the names in _serialize_fields of the classes o's class derives from
DeclaredFields(c) ==
    UNION { SeqToSet(Decl[k]["_serialize_fields"]) :
            k \in { n \in SeqToSet(Mro[c]) : "_serialize_fields" \in DOMAIN Decl[n] } }

\* the last call was a save that wrote the file
Saved ==
    /\ last.op = "save"
    /\ last.exc = "none"
    /\ file.present
    /\ file.src = last.obj

\* document d of object o holds the document of o's producer, and so on upwards
RECURSIVE ChainInDoc(_, _)
ChainInDoc(d, o) ==
    IF ProducersOf(o) = <<>> THEN TRUE
    ELSE /\ "data_producer" \in DOMAIN d.state
         /\ d.state["data_producer"].kind = "obj"
         /\ d.state["data_producer"].cls = cls[Head(ProducersOf(o))]
         /\ ChainInDoc(d.state["data_producer"], Head(ProducersOf(o)))

\* document d holds the declared fields o has
OwnFieldsInDoc(d, o) ==
    /\ d.hasstate
    /\ \A f \in DeclaredFields(cls[o]) :
          HasAttr(o, f) => (f \in DOMAIN d.state /\ d.state[f] = GetAttr(o, f))

\* C7: a save with the chain puts the producer of x, and each producer's own
\* producer, into the state of x when x has a producer other than itself, and
\* still encodes the fields of x when x has no producer; a save without the
\* chain never puts a producer into the state of x, whatever was saved before.
C7_ChainPropagation ==
    Saved =>
        /\ (last.chain /\ ProducersOf(last.obj) # <<>>) => ChainInDoc(file.doc, last.obj)
        /\ (last.chain /\ ProducersOf(last.obj) = <<>>) => OwnFieldsInDoc(file.doc, last.obj)
        /\ ~last.chain => "data_producer" \notin DOMAIN file.doc.state

\* C8: a save with the chain fails with DeveloperError when an object of the
\* chain of x is of a class that declares no _serialize_version.
C8_UnversionedProducerRaisesDeveloperError ==
    (/\ last.op = "save"
     /\ Serializable(last.obj)
     /\ last.chain
     /\ UnversionedInChain(last.obj))
    => last.exc = "DeveloperError"

\* C10: an object of a class with declared fields, saved and loaded under the
\* same classes, comes back with every declared field it had, equal in value;
\* a declared field it did not have is absent and no error.
C10_RoundTrip ==
    (/\ last.op = "load"
     /\ file.present
     /\ file.src \in Objs
     /\ DeclaredFields(cls[file.src]) # {})
    => /\ last.exc = "none"
       /\ last.obj.kind = "obj"
       /\ \A f \in DeclaredFields(cls[file.src]) :
             IF HasAttr(file.src, f)
             THEN f \in DOMAIN last.obj.attrs /\ last.obj.attrs[f] = GetAttr(file.src, f)
             ELSE f \notin DOMAIN last.obj.attrs

(***************************************************************************)
(* Properties of load on files written earlier.                            *)
(***************************************************************************)
\* C2: an exception raised while the state is restored, other than the
\* left-over keys condition, reaches the caller of load.
C2_SetStateExceptionReachesCaller ==
    (/\ last.op = "load"
     /\ last.obj.kind = "obj"
     /\ last.obj.caught \notin {"none", "AssertionError"})
    => last.exc = last.obj.caught

\* the document as the unpickler sees it, and its state after the migration
UpgradedDoc == UpgradeOldNamesInJson(file.doc)

MigratedState == Interpolate(UpgradedDoc.state, KlassOf(UpgradedDoc.cls))

\* the keys some restoration step of class c consumes
ExpectedKeys(c) ==
    {"class_tree_versions", "_pyemma_version", "_is_reader"}
    \cup DeclaredFields(c)
    \cup (IF ClassHasAttr(c, "_get_model_param_names")
          THEN SeqToSet(ClassGetAttr(c, "_get_model_param_names")) ELSE {})
    \cup (IF ClassHasAttr(c, "_get_param_names")
          THEN SeqToSet(ClassGetAttr(c, "_get_param_names")) \cup {"_estimated", "model"}
          ELSE {})
    \cup (IF ClassHasAttr(c, "data_producer") THEN {"data_producer"} ELSE {})

UnexpectedKeys == (DOMAIN MigratedState.state) \ ExpectedKeys(UpgradedDoc.cls)

\* the fields and model parameters of the document are attributes of the result
KnownValuesRestored ==
    \A k \in (DOMAIN MigratedState.state)
             \cap (ExpectedKeys(UpgradedDoc.cls)
                   \ {"class_tree_versions", "_pyemma_version", "data_producer"}) :
        k \in DOMAIN last.obj.attrs /\ last.obj.attrs[k] = MigratedState.state[k]

\* C9: a state with keys no restoration step consumes is reported with exactly
\* those keys, the load goes on and every known value is restored; a state
\* without such a key is not reported, also when it holds a producer chain.
C9_LeftoverDetection ==
    (/\ last.op = "load"
     /\ last.obj.kind = "obj"
     /\ MigratedState.exc = "none")
    => /\ last.exc = "none"
       /\ UnexpectedKeys # {} =>
             /\ last.obj.log = "left-overs"
             /\ last.obj.leftover = UnexpectedKeys
             /\ KnownValuesRestored
       /\ UnexpectedKeys = {} => last.obj.log # "left-overs"

(***************************************************************************)
(* Properties of the manifest.                                             *)
(***************************************************************************)
\* manifest m has one entry per class of the mro of c: the version the class
\* has, -1 for a class without one
Stamped(m, c) ==
    /\ DOMAIN m = SeqToSet(Mro[c])
    /\ m[c] = ClassGetAttr(c, "_serialize_version")
    /\ \A n \in SeqToSet(Mro[c]) :
          m[n] = IF \E i \in 1..Len(Mro[n]) : "_serialize_version" \in DOMAIN Decl[Mro[n][i]]
                 THEN ClassGetAttr(n, "_serialize_version")
                 ELSE -1

\* the document of o, and the documents of the producers nested in it, are stamped
RECURSIVE StampedDoc(_, _)
StampedDoc(d, o) ==
    d.hasstate =>
        /\ "class_tree_versions" \in DOMAIN d.state
        /\ Stamped(d.state["class_tree_versions"], cls[o])
        /\ ("data_producer" \in DOMAIN d.state /\ d.state["data_producer"].kind = "obj")
              => StampedDoc(d.state["data_producer"], GetAttr(o, "data_producer"))

\* C11: the manifest written for x has exactly one entry for every class of the
\* mro of x: the current version of the class of x, the declared version of an
\* ancestor, and -1 for an ancestor without a version.
C11_VersionStamping ==
    Saved => StampedDoc(file.doc, last.obj)

\* a SubStage, whose version is the one Stage declares, saved with its producer
C11_Witness ==
    /\ Saved
    /\ file.doc.hasstate
    /\ cls[last.obj] = "SubStage"
    /\ "data_producer" \in DOMAIN file.doc.state
    /\ file.doc.state["data_producer"].kind = "obj"
    /\ file.doc.state["data_producer"].hasstate

(***************************************************************************)
(* Properties of renamed classes.                                          *)
(***************************************************************************)
\* the manifest of the file records the harness class under its old name only
UnderOldName ==
    /\ "class_tree_versions" \in DOMAIN state0
    /\ DOMAIN state0["class_tree_versions"] = {"OldC"}

\* the same file with the version recorded under the current name
UnderNewName ==
    DictSet(state0, "class_tree_versions",
            [n \in {"C"} |-> state0["class_tree_versions"]["OldC"]])

\* C12: for a class registered as renamed, the saved version resolved from a
\* manifest that records v under the old name is the v resolved from a manifest
\* that records it under the new name, and the same migration is applied.
C12_RenameTransparency ==
    (ncalls >= 1 /\ UnderOldName) =>
        /\ SavedVersion = Finite(state0["class_tree_versions"]["OldC"])
        /\ GetVersionForClassFromState(UnderNewName, klass0) = SavedVersion
        /\ Interpolate(UnderNewName, klass0).exc = exc1
        /\ DictDel(Interpolate(UnderNewName, klass0).state, "class_tree_versions")
              = DictDel(state1, "class_tree_versions")

\* a file under the old name that the first call migrated
C12_Witness ==
    /\ ncalls = 1
    /\ UnderOldName
    /\ klass0.hasmap
    /\ exc1 = "none"
    /\ DictDel(state1, "class_tree_versions") # DictDel(state0, "class_tree_versions")

(***************************************************************************)
(* Properties of the interpolation during one decode.                      *)
(***************************************************************************)
\* the classes of the mro of c that contribute persisted state
Contributing(c) ==
    { n \in SeqToSet(Mro[c]) : HasCustomFields(n) \/ IsEstimatorClass(n) }

\* how often __interpolate was called for class k
TimesInterpolated(log, k) == Cardinality({ i \in 1..Len(log) : log[i] = k })

\* the class whose body declares the interpolation map k has
MapOwner(k) ==
    Mro[k][CHOOSE i \in 1..Len(Mro[k]) :
              /\ "_serialize_interpolation_map" \in DOMAIN Decl[Mro[k][i]]
              /\ \A j \in 1..(i - 1) : "_serialize_interpolation_map" \notin DOMAIN Decl[Mro[k][j]]]

\* the interpolation for k has actions to apply to the document: a key of its
\* map lies between the saved version of k and its current version
AppliesActions(k) ==
    /\ ClassHasAttr(k, "_serialize_interpolation_map")
    /\ \E i \in 1..Len(KlassOf(k).map) :
          /\ KlassOf(k).map[i].key.n < KlassOf(k).version
          /\ ~VersionGreater(GetVersionForClassFromState(UpgradedDoc.state, KlassOf(k)),
                             KlassOf(k).map[i].key.n)

\* C13: during one decode the Interpolator runs exactly once for each class
\* that contributes persisted state and for no other, and no action list is
\* applied twice; also for a class with fields, a version and parameter names,
\* and for a subclass that inherits its fields or its map.
C13_InterpolatedOncePerClass ==
    (last.op = "load" /\ last.obj.kind = "obj") =>
        /\ \A k \in SeqToSet(last.obj.interpolated) : k \in Contributing(last.obj.cls)
        /\ \A k \in Contributing(last.obj.cls) :
              /\ TimesInterpolated(last.obj.interpolated, k) <= 1
              /\ last.obj.caught \in {"none", "AssertionError"}
                    => TimesInterpolated(last.obj.interpolated, k) = 1
        /\ \A i, j \in 1..Len(last.obj.interpolated) :
              (/\ i < j
               /\ AppliesActions(last.obj.interpolated[i])
               /\ AppliesActions(last.obj.interpolated[j]))
              => MapOwner(last.obj.interpolated[i]) # MapOwner(last.obj.interpolated[j])

(***************************************************************************)
(* Properties of the flags of the producers.                               *)
(***************************************************************************)
\* C14: when a save with the chain ends, every object of the producer chain of
\* x has the flag _save_data_producer it had before the call.
C14_ProducerFlagsRestored ==
    (last.op = "save" /\ Serializable(last.obj) /\ last.chain) =>
        \A i \in 1..Len(ProducersOf(last.obj)) :
            flag[ProducersOf(last.obj)[i]] = last.old[ProducersOf(last.obj)[i]]

====
